---- MODULE Spec2Model ----
(***************************************************************************)
(* PinPad (src/src/components/ui/PinPad.tsx): a controlled PIN entry pad.  *)
(*                                                                         *)
(* The caller owns the buffer (value), the type hint and the callbacks;    *)
(* the global store owns isPinAccepted.  The component owns only what its  *)
(* hooks keep between renders: the props of its latest render (which the   *)
(* handlers and the effects close over), the usePrevious snapshot, the     *)
(* dependencies of its effects and the handle of the error timer.          *)
(*                                                                         *)
(* The caller's state and the rendered props are separate variables: a     *)
(* handler or a timer callback runs on the props of the render that made   *)
(* it, and the caller's state may have moved on since that render.         *)
(***************************************************************************)
EXTENDS Integers, Sequences, FiniteSets

\* ---------------------------------------------------------------- bounds
\* Largest configured code length (the length prop) explored.
MaxLength == 2
\* Number of distinct digit keys explored (the pad has ten).
NumDigits == 2
\* Number of window timers that can be live at once in the model.
MaxTimers == 2
\* Saturation of the autoClears history counter.
MaxAutoClears == 3

Digits == 1..NumDigits

VARIABLES
    length,          \* the length prop (fixed for a behaviour)
    hasOnClearError, \* whether the caller supplies onClearError
    value,           \* caller: the buffer it passes as value
    type,            \* caller: "none" (absent) | "error" | "success"
    onChangeRef,     \* caller: identity of the onChange/onClearError closures
    isPinAccepted,   \* global store: the accepted flag
    mounted,         \* whether an instance is mounted
    rendered,        \* component: props of the latest render
    timeoutId,       \* component: id captured by the error effect's cleanup, 0 if none
    timers,          \* window: the live timers, each with the closure it captured
    event,           \* history: the last event handled
    calls,           \* history: the callbacks that event invoked, in order
    autoClears,      \* history: onClearError calls the error timer made since it
                     \* cleared a full buffer (that firing included) with nothing
                     \* but renders in between; 0 after any other event
    vibrated,        \* history: whether the mounted instance has called
                     \* vibrateOnError since type last became 'error'
                     \* (FALSE once type is no longer 'error')
    acceptedAtUnmount \* history: while no instance is mounted, whether the flag
                     \* was true when the last one unmounted

vars == <<length, hasOnClearError, value, type, onChangeRef, isPinAccepted,
          mounted, rendered, timeoutId, timers, event, calls, autoClears,
          vibrated, acceptedAtUnmount>>

\* ------------------------------------------------------------- callbacks
Call(fn, arg) == [fn |-> fn, arg |-> arg]

NoCalls == <<>>

\* onClearError?.() : nothing when the caller supplied no callback.
OnClearErrorCall == IF hasOnClearError THEN <<Call("onClearError", <<>>)>> ELSE NoCalls

CallsOf(cs, fn) == {i \in 1..Len(cs) : cs[i].fn = fn}

\* The caller applies every onChange request: the buffer after a run of
\* calls is the argument of the last onChange, if there was one.
ValueAfter(cs, v) ==
    IF CallsOf(cs, "onChange") = {} THEN v
    ELSE cs[CHOOSE i \in CallsOf(cs, "onChange") :
                \A j \in CallsOf(cs, "onChange") : j <= i].arg

\* The caller's onClearError may drop the error hint or leave it.
TypeAfter(cs, t, clears) ==
    IF CallsOf(cs, "onClearError") # {} /\ clears /\ t = "error" THEN "none" ELSE t

\* The global flag after the store handled the actions dispatched in cs.
AcceptedAfter(cs, flag, cleared) ==
    IF CallsOf(cs, "clearIsPinAccepted") # {} THEN cleared ELSE flag

\* ---------------------------------------------------------------- render
NoProps == [value |-> <<>>, type |-> "none", isPinAccepted |-> FALSE,
            onChange |-> 0, prevIsPinAccepted |-> FALSE]

\* usePrevious(isPinAccepted): the value of the previous render.
usePrevious(prevProps) == prevProps.isPinAccepted

\* The props a render started now would see.
CurrentProps(prev) ==
    [value |-> value, type |-> type, isPinAccepted |-> isPinAccepted,
     onChange |-> onChangeRef, prevIsPinAccepted |-> prev]

canRenderBackspace(p) == Len(p.value) > 0

isSuccess_TypeOnly(p) == p.type = "success"

isSuccess(p) == p.type = "success" \/ p.isPinAccepted

arePinButtonsDisabled_NoErrorCarveOut(p) ==
    (p.type = "success" \/ p.isPinAccepted) \/ Len(p.value) = length

arePinButtonsDisabled(p) ==
    isSuccess(p) \/ (Len(p.value) = length /\ p.type # "error")

\* PinPadButton: a disabled button does not call onClick.
PinPadButtonClicks(isDisabled) == ~isDisabled

\* ------------------------------------------------------------- handlers
\* Faulty variants of handleClick: no restart of a full buffer; onClearError last.
handleClick_NoRestart(p, char) ==
    LET newValue == Append(p.value, char) IN
    (IF Len(p.value) = length \/ Len(p.value) = 0 THEN OnClearErrorCall ELSE NoCalls)
    \o <<Call("onChange", newValue)>>
    \o (IF Len(newValue) = length THEN <<Call("onSubmit", newValue)>> ELSE NoCalls)

handleClick_AlwaysClearError(p, char) ==
    LET newValue == Append(p.value, char) IN
    OnClearErrorCall
    \o (IF Len(p.value) = length
        THEN <<Call("onChange", <<char>>)>>
        ELSE <<Call("onChange", newValue)>>
             \o (IF Len(newValue) = length
                 THEN <<Call("onSubmit", newValue)>>
                 ELSE NoCalls))

handleClick_ClearErrorLast(p, char) ==
    LET newValue == Append(p.value, char) IN
    (IF Len(p.value) = length
     THEN <<Call("onChange", <<char>>)>>
     ELSE <<Call("onChange", newValue)>>
          \o (IF Len(newValue) = length
              THEN <<Call("onSubmit", newValue)>>
              ELSE NoCalls))
    \o (IF Len(p.value) = length \/ Len(p.value) = 0 THEN OnClearErrorCall ELSE NoCalls)

\* handleClick: the digit keys' onClick, run on the props of the latest render.
handleClick(p, char) ==
    LET newValue == Append(p.value, char) IN
    (IF Len(p.value) = length \/ Len(p.value) = 0 THEN OnClearErrorCall ELSE NoCalls)
    \o (IF Len(p.value) = length
        THEN <<Call("onChange", <<char>>)>>
        ELSE <<Call("onChange", newValue)>>
             \o (IF Len(newValue) = length
                 THEN <<Call("onSubmit", newValue)>>
                 ELSE NoCalls))

handleBackspaceClick_DropFirst(p) ==
    OnClearErrorCall
    \o (IF Len(p.value) = 0
        THEN NoCalls
        ELSE <<Call("onChange", SubSeq(p.value, 2, Len(p.value)))>>)

\* handleBackspaceClick: the backspace key's onClick.
handleBackspaceClick(p) ==
    OnClearErrorCall
    \o (IF Len(p.value) = 0
        THEN NoCalls
        ELSE <<Call("onChange", SubSeq(p.value, 1, Len(p.value) - 1))>>)

\* isDisabled of the digit keys and of the backspace key.
DigitKeyDisabled(p) == arePinButtonsDisabled(p)

BackspaceKeyDisabled_WhenFull(p) ==
    ~canRenderBackspace(p) \/ arePinButtonsDisabled(p)

BackspaceKeyDisabled_NoSuccess(p) == ~canRenderBackspace(p)

BackspaceKeyDisabled(p) == ~canRenderBackspace(p) \/ isSuccess(p)

\* The biometric key: rendered when onBiometricsClick is supplied, disabled
\* in Success mode.
BiometricsKeyDisabled_AsDigits(p) == arePinButtonsDisabled(p)

BiometricsKeyDisabled(p) == isSuccess(p)

\* -------------------------------------------------------------- effects
RESET_STATE_DELAY_MS == 1500

\* useEffect: the effect runs after the first render and after a render
\* whose dependencies differ from those of the render before.
useEffectRuns(first, oldDeps, newDeps) == first \/ oldDeps # newDeps

\* Effect on the accepted flag: its dependencies and its body.
AcceptedEffectDeps(p) ==
    <<p.isPinAccepted, length, p.onChange, p.prevIsPinAccepted, Len(p.value)>>

AcceptedEffect_NoLengthCheck(p) ==
    IF p.prevIsPinAccepted /\ ~p.isPinAccepted
    THEN <<Call("onChange", <<>>)>>
    ELSE NoCalls

AcceptedEffect(p) ==
    IF p.prevIsPinAccepted /\ ~p.isPinAccepted /\ length = Len(p.value)
    THEN <<Call("onChange", <<>>)>>
    ELSE NoCalls

\* Error effect: dependencies, guard, the timer it arms and its cleanup.
ErrorEffectDeps_WholeValue(p) ==
    <<length, p.onChange, p.onChange, RESET_STATE_DELAY_MS, p.type, p.value>>

ErrorEffectDeps_NoType(p) ==
    <<length, p.onChange, p.onChange, RESET_STATE_DELAY_MS, Len(p.value)>>

ErrorEffectDeps(p) ==
    <<length, p.onChange, p.onChange, RESET_STATE_DELAY_MS, p.type, Len(p.value)>>

ErrorEffectArms(p) == p.type = "error"

\* window.setTimeout returns an id no live timer has.
FreshTimerId(ts) ==
    CHOOSE i \in 1..MaxTimers :
        /\ \A t \in ts : t.id # i
        /\ \A j \in 1..(i - 1) : \E t \in ts : t.id = j

\* The timer closes over value.length of the render that armed it.
ErrorTimer(p, id) == [id |-> id, valueLength |-> Len(p.value)]

ErrorTimerCallback(t) ==
    (IF t.valueLength = length THEN <<Call("onChange", <<>>)>> ELSE NoCalls)
    \o OnClearErrorCall

clearTimeout(ts, id) == {t \in ts : t.id # id}

ErrorEffectCleanup_Leak(ts, id) == ts

ErrorEffectCleanup(ts, id) == clearTimeout(ts, id)

UnmountCleanup_None == NoCalls

\* Unmount effect: its cleanup dispatches clearIsPinAccepted.
UnmountCleanup == <<Call("clearIsPinAccepted", <<>>)>>

\* The clearIsPinAccepted action resets the global flag.
clearIsPinAccepted(flag) == FALSE

\* --------------------------------------------------------------- actions
\* arg: the digit of a key press; the number of timers the cleanup of a
\* render or of an unmount cancelled.
Event(kind, arg) == [kind |-> kind, arg |-> arg]

Saturate(n) == IF n < MaxAutoClears THEN n + 1 ELSE MaxAutoClears

\* autoClears after the error timer made the calls cs: counting starts with
\* a firing that clears a full buffer and goes on with each later firing
\* that invokes onClearError.
AutoClearsAfter(cs) ==
    IF CallsOf(cs, "onClearError") = {} THEN autoClears
    ELSE IF CallsOf(cs, "onChange") # {} THEN 1
    ELSE IF autoClears >= 1 THEN Saturate(autoClears)
    ELSE 0

\* One render with props p followed by the effects it schedules.
Commit(p, first, kind) ==
    LET runAccepted == useEffectRuns(first, AcceptedEffectDeps(rendered), AcceptedEffectDeps(p))
        runError == useEffectRuns(first, ErrorEffectDeps(rendered), ErrorEffectDeps(p))
        acceptedCalls == IF runAccepted THEN AcceptedEffect(p) ELSE NoCalls
        cleaned == IF runError THEN ErrorEffectCleanup(timers, timeoutId) ELSE timers
        arms == runError /\ ErrorEffectArms(p)
        id == FreshTimerId(cleaned)
        errorCalls == IF arms THEN <<Call("vibrateOnError", <<>>)>> ELSE NoCalls
        cs == acceptedCalls \o errorCalls
    IN  /\ arms => Cardinality(cleaned) < MaxTimers
        /\ rendered' = p
        /\ timers' = IF arms THEN cleaned \cup {ErrorTimer(p, id)} ELSE cleaned
        /\ timeoutId' = IF runError THEN (IF arms THEN id ELSE 0) ELSE timeoutId
        /\ calls' = cs
        /\ value' = ValueAfter(cs, value)
        /\ event' = Event(kind, Cardinality(timers) - Cardinality(cleaned))
        /\ vibrated' = ((~first /\ vibrated) \/ CallsOf(cs, "vibrateOnError") # {})

Mount ==
    /\ ~mounted
    /\ acceptedAtUnmount' = FALSE
    /\ mounted' = TRUE
    /\ Commit(CurrentProps(FALSE), TRUE, "mount")
    /\ autoClears' = 0
    /\ UNCHANGED <<length, hasOnClearError, type, onChangeRef, isPinAccepted>>

Render ==
    /\ UNCHANGED acceptedAtUnmount
    /\ mounted
    /\ Commit(CurrentProps(usePrevious(rendered)), FALSE, "render")
    /\ UNCHANGED <<length, hasOnClearError, type, onChangeRef, isPinAccepted,
                   mounted, autoClears>>

Unmount ==
    /\ mounted
    /\ acceptedAtUnmount' = isPinAccepted
    /\ mounted' = FALSE
    /\ rendered' = NoProps
    /\ timers' = ErrorEffectCleanup(timers, timeoutId)
    /\ timeoutId' = 0
    /\ calls' = UnmountCleanup
    /\ isPinAccepted' = AcceptedAfter(UnmountCleanup, isPinAccepted,
                                      clearIsPinAccepted(isPinAccepted))
    /\ event' = Event("unmount", Cardinality(timers) - Cardinality(timers'))
    /\ autoClears' = 0
    /\ vibrated' = FALSE
    /\ UNCHANGED <<length, hasOnClearError, value, type, onChangeRef>>

\* The caller's handlers run on the calls cs of one event; its onClearError
\* either drops the 'error' type or leaves it.
Deliver(cs) ==
    /\ calls' = cs
    /\ value' = ValueAfter(cs, value)
    /\ \E clears \in (IF CallsOf(cs, "onClearError") # {} /\ type = "error"
                      THEN BOOLEAN ELSE {FALSE}) :
          type' = TypeAfter(cs, type, clears)
    /\ vibrated' = (vibrated /\ type' = "error")

PressDigit(char) ==
    /\ UNCHANGED acceptedAtUnmount
    /\ mounted
    /\ Deliver(IF PinPadButtonClicks(DigitKeyDisabled(rendered))
               THEN handleClick(rendered, char)
               ELSE NoCalls)
    /\ event' = Event("digit", char)
    /\ autoClears' = 0
    /\ UNCHANGED <<length, hasOnClearError, onChangeRef, isPinAccepted, mounted,
                   rendered, timeoutId, timers>>

PressBackspace ==
    /\ UNCHANGED acceptedAtUnmount
    /\ mounted
    /\ Deliver(IF PinPadButtonClicks(BackspaceKeyDisabled(rendered))
               THEN handleBackspaceClick(rendered)
               ELSE NoCalls)
    /\ event' = Event("backspace", 0)
    /\ autoClears' = 0
    /\ UNCHANGED <<length, hasOnClearError, onChangeRef, isPinAccepted, mounted,
                   rendered, timeoutId, timers>>

\* A press on the biometric key, which is rendered only when the caller
\* supplied onBiometricsClick (without it there is no key to press).
PressBiometrics ==
    /\ UNCHANGED acceptedAtUnmount
    /\ mounted
    /\ calls' = IF PinPadButtonClicks(BiometricsKeyDisabled(rendered))
                THEN <<Call("onBiometricsClick", <<>>)>>
                ELSE NoCalls
    /\ event' = Event("biometrics", 0)
    /\ autoClears' = 0
    /\ UNCHANGED <<length, hasOnClearError, value, type, onChangeRef, isPinAccepted,
                   mounted, rendered, timeoutId, timers, vibrated>>

\* The delay of an armed timer elapses.
TimerFires ==
    \E t \in timers :
        /\ UNCHANGED acceptedAtUnmount
        /\ timers' = timers \ {t}
        /\ Deliver(ErrorTimerCallback(t))
        /\ event' = Event("timer", 0)
        /\ autoClears' = AutoClearsAfter(ErrorTimerCallback(t))
        /\ UNCHANGED <<length, hasOnClearError, onChangeRef, isPinAccepted, mounted,
                       rendered, timeoutId>>

\* The caller changes the type hint (a wrong PIN, a right one, a reset).
SetType(t) ==
    /\ UNCHANGED acceptedAtUnmount
    /\ t # type
    /\ type' = t
    /\ event' = Event("external", 0)
    /\ calls' = NoCalls
    /\ autoClears' = 0
    /\ vibrated' = FALSE
    /\ UNCHANGED <<length, hasOnClearError, value, onChangeRef, isPinAccepted,
                   mounted, rendered, timeoutId, timers>>

\* The application sets or clears the global accepted flag.
SetAccepted(b) ==
    /\ UNCHANGED acceptedAtUnmount
    /\ b # isPinAccepted
    /\ isPinAccepted' = b
    /\ event' = Event("external", 0)
    /\ calls' = NoCalls
    /\ autoClears' = 0
    /\ UNCHANGED <<length, hasOnClearError, value, type, onChangeRef,
                   mounted, rendered, timeoutId, timers, vibrated>>

\* The caller passes new closures for onChange and onClearError.
ChangeCallbacks ==
    /\ UNCHANGED acceptedAtUnmount
    /\ mounted
    /\ onChangeRef' = 1 - onChangeRef
    /\ event' = Event("external", 0)
    /\ calls' = NoCalls
    /\ autoClears' = 0
    /\ UNCHANGED <<length, hasOnClearError, value, type, isPinAccepted,
                   mounted, rendered, timeoutId, timers, vibrated>>

\* The caller resets the buffer on its own (the external reset).
CallerReset ==
    /\ UNCHANGED acceptedAtUnmount
    /\ mounted
    /\ value # <<>>
    /\ value' = <<>>
    /\ event' = Event("external", 0)
    /\ calls' = NoCalls
    /\ autoClears' = 0
    /\ UNCHANGED <<length, hasOnClearError, type, onChangeRef, isPinAccepted,
                   mounted, rendered, timeoutId, timers, vibrated>>

Init ==
    /\ length \in 1..MaxLength
    /\ hasOnClearError \in BOOLEAN
    /\ value = <<>>
    /\ type = "none"
    /\ onChangeRef = 0
    /\ isPinAccepted = FALSE
    /\ mounted = FALSE
    /\ rendered = NoProps
    /\ timeoutId = 0
    /\ timers = {}
    /\ event = Event("init", 0)
    /\ calls = NoCalls
    /\ autoClears = 0
    /\ vibrated = FALSE
    /\ acceptedAtUnmount = FALSE

Next ==
    \/ Mount
    \/ Render
    \/ Unmount
    \/ \E char \in Digits : PressDigit(char)
    \/ PressBackspace
    \/ PressBiometrics
    \/ TimerFires
    \/ \E t \in {"none", "error", "success"} : SetType(t)
    \/ \E b \in BOOLEAN : SetAccepted(b)
    \/ ChangeCallbacks
    \/ CallerReset

Spec == Init /\ [][Next]_vars

\* ---------------------------------------------------------------- claims
Submits(cs) == CallsOf(cs, "onSubmit")

Changes(cs) == CallsOf(cs, "onChange")

\* The latest render was in Normal mode: type absent, accepted flag false.
RenderedNormal == mounted /\ rendered.type = "none" /\ ~rendered.isPinAccepted

\* The latest render was in Error mode: type 'error', accepted flag false.
RenderedError == mounted /\ rendered.type = "error" /\ ~rendered.isPinAccepted

\* The latest render was in Success mode.
RenderedSuccess == mounted /\ (rendered.type = "success" \/ rendered.isPinAccepted)

\* C1: whatever the events, with the caller applying every onChange request,
\* the buffer length stays between 0 and the configured length.
C1_BufferLengthInRange == Len(value) \in 0..length

\* C1 witness: a digit pressed on a full rendered buffer (Error mode)
\* restarted the buffer at one digit.
C1_Witness ==
    /\ event.kind = "digit"
    /\ length >= 2
    /\ RenderedError
    /\ Len(rendered.value) = length
    /\ value = <<event.arg>>

\* C2: a digit press that takes the buffer into length N makes exactly one
\* onSubmit call, with the full buffer, and nothing else makes an onSubmit
\* call.
C2_SubmitOncePerCompletion ==
    [][LET completing == /\ event'.kind = "digit"
                         /\ Len(value) # length
                         /\ Len(value') = length
       IN  /\ completing =>
                /\ Cardinality(Submits(calls')) = 1
                /\ \A i \in Submits(calls') : calls'[i].arg = value'
           /\ Submits(calls') # {} => completing]_vars

\* C3 as stated: a digit press that completes the rendered buffer in Normal
\* mode submits it once, and once the full buffer is shown in Normal mode
\* the control makes no onChange call (before an external reset).
C3_NoChangeAfterCompletion ==
    [][RenderedNormal /\ rendered.value = value /\ type = "none" /\ ~isPinAccepted =>
          /\ (event'.kind = "digit" /\ Len(value) = length - 1) =>
                /\ Cardinality(Submits(calls')) = 1
                /\ \A i \in Submits(calls') : calls'[i].arg = Append(value, event'.arg)
          /\ Len(value) = length => Changes(calls') = {}]_vars

\* C3 amended: in Normal mode a digit press on a rendered buffer of N-1
\* digits makes exactly one onSubmit call, with those digits followed by the
\* pressed one, and a press on a shorter buffer makes none; on a rendered
\* full buffer a digit press makes no call at all, while a backspace press
\* still requests the buffer without its last digit.
C3_DigitsGatedBackspaceNot ==
    [][RenderedNormal =>
          /\ event'.kind = "digit" =>
                /\ Len(rendered.value) = length - 1 =>
                      /\ Cardinality(Submits(calls')) = 1
                      /\ \A i \in Submits(calls') :
                            calls'[i].arg = Append(rendered.value, event'.arg)
                /\ Len(rendered.value) < length - 1 => Submits(calls') = {}
                /\ Len(rendered.value) = length => calls' = NoCalls /\ value' = value
          /\ (event'.kind = "backspace" /\ Len(rendered.value) = length) =>
                /\ Cardinality(Changes(calls')) = 1
                /\ value' = SubSeq(rendered.value, 1, length - 1)
                /\ Submits(calls') = {}]_vars

\* C3 witness: backspace pressed on a full buffer shown in Normal mode
\* dropped the last digit.
C3_Witness ==
    /\ event.kind = "backspace"
    /\ RenderedNormal
    /\ Len(rendered.value) = length
    /\ Changes(calls) # {}
    /\ value = SubSeq(rendered.value, 1, length - 1)

\* C4 as stated: in Normal mode a digit press on a full buffer replaces the
\* buffer by that digit.
C4_NormalFullRestarts ==
    [][(/\ event'.kind = "digit"
        /\ RenderedNormal /\ type = "none" /\ ~isPinAccepted
        /\ rendered.value = value
        /\ Len(value) = length) => value' = <<event'.arg>>]_vars

\* C4 amended: with the accepted flag false, a digit press on a full
\* rendered buffer replaces the buffer by that digit in Error mode (type
\* 'error'); in Normal mode the digit keys are disabled and the press
\* changes nothing.
C4_ErrorFullRestarts ==
    [][(event'.kind = "digit" /\ mounted /\ ~rendered.isPinAccepted
        /\ Len(rendered.value) = length) =>
          /\ rendered.type = "error" => value' = <<event'.arg>> /\ Len(value') = 1
          /\ rendered.type = "none" => value' = value /\ calls' = NoCalls]_vars

\* C4 witness: in Error mode a digit replaced a full buffer of two digits
\* or more that the caller still held.
C4_Witness ==
    /\ event.kind = "digit"
    /\ RenderedError
    /\ length >= 2
    /\ Len(rendered.value) = length
    /\ Changes(calls) # {}
    /\ calls[Len(calls)] = Call("onChange", <<event.arg>>)
    /\ value = <<event.arg>>
    /\ type = "error"

\* C5: while the rendered mode is Success, a digit or backspace press
\* changes neither the buffer nor the type and invokes no callback.
C5_SuccessGatesKeys ==
    [][(RenderedSuccess /\ event'.kind \in {"digit", "backspace"}) =>
          /\ calls' = NoCalls
          /\ value' = value
          /\ type' = type]_vars

\* C5 witness: a digit was pressed on a non-full buffer while the accepted
\* flag was rendered true, and nothing was called.
C5_Witness ==
    /\ event.kind = "digit"
    /\ mounted
    /\ rendered.isPinAccepted
    /\ rendered.type = "none"
    /\ Len(rendered.value) < length
    /\ Len(rendered.value) > 0
    /\ calls = NoCalls

C7_ClearErrorOncePerEpisode ==
    /\ autoClears <= 1
    /\ event.kind = "timer" =>
          /\ hasOnClearError => Cardinality(CallsOf(calls, "onClearError")) = 1
          /\ Changes(calls) # {} => value = <<>>

\* C8: a render that sees the accepted flag go from true to false requests
\* an empty buffer if the buffer is full and leaves the buffer alone if it is
\* not; no other render requests a buffer change.
C8_AcceptedEdgeClears ==
    [][event'.kind = "render" =>
          /\ (rendered.isPinAccepted /\ ~isPinAccepted /\ Len(value) = length) =>
                /\ calls'[1] = Call("onChange", <<>>)
                /\ value' = <<>>
          /\ (rendered.isPinAccepted /\ ~isPinAccepted /\ Len(value) # length) =>
                /\ Changes(calls') = {}
                /\ value' = value
          /\ Changes(calls') # {} => rendered.isPinAccepted /\ ~isPinAccepted]_vars

\* C8 witness: the render after the flag dropped emptied a full buffer.
C8_Witness ==
    /\ event.kind = "render"
    /\ rendered.prevIsPinAccepted
    /\ ~rendered.isPinAccepted
    /\ Len(rendered.value) = length
    /\ calls = <<Call("onChange", <<>>)>>
    /\ value = <<>>

\* C9: an unmount cancels the pending error timer and dispatches
\* clearIsPinAccepted exactly once; nothing else dispatches it; and while
\* no instance is mounted no timer is live and no onChange or onClearError
\* call is made.
C9_UnmountCancelsAndClears ==
    [][/\ event'.kind = "unmount" =>
             /\ timers' = {}
             /\ calls' = <<Call("clearIsPinAccepted", <<>>)>>
       /\ CallsOf(calls', "clearIsPinAccepted") # {} => event'.kind = "unmount"
       /\ ~mounted' =>
             /\ timers' = {}
             /\ Changes(calls') = {}
             /\ CallsOf(calls', "onClearError") = {}]_vars

\* C9 witness: an unmount cancelled an armed error timer.
C9_Witness ==
    /\ event = Event("unmount", 1)
    /\ ~mounted
    /\ timers = {}
    /\ calls = <<Call("clearIsPinAccepted", <<>>)>>

\* C10: in Error mode a digit press on a full or empty rendered buffer is
\* handled: onClearError (when supplied) is the first call, before the
\* onChange, and the buffer becomes the pressed digit alone (a full buffer
\* replaced, an empty one appended to).
C10_ErrorPressClearsFirst ==
    [][(event'.kind = "digit" /\ RenderedError
        /\ Len(rendered.value) \in {0, length}) =>
          /\ Cardinality(Changes(calls')) = 1
          /\ \A i \in Changes(calls') : calls'[i].arg = <<event'.arg>>
          /\ value' = <<event'.arg>>
          /\ hasOnClearError =>
                /\ calls'[1] = Call("onClearError", <<>>)
                /\ CallsOf(calls', "onClearError") = {1}]_vars

\* C10 witness: in Error mode a digit was pressed on an empty buffer with
\* onClearError supplied.
C10_Witness ==
    /\ event.kind = "digit"
    /\ RenderedError
    /\ hasOnClearError
    /\ rendered.value = <<>>
    /\ Len(calls) >= 2
    /\ calls[1].fn = "onClearError"
    /\ calls[2] = Call("onChange", <<event.arg>>)

\* C11: in Normal mode a digit press on a buffer shorter than N appends
\* exactly that digit to the caller's buffer, so k presses from an empty
\* buffer give the k digits in press order, also when the component has
\* not re-rendered between two presses.
C11_PressAppends ==
    [][(/\ event'.kind = "digit"
        /\ RenderedNormal /\ type = "none" /\ ~isPinAccepted
        /\ Len(rendered.value) < length
        /\ Len(value) < length) => value' = Append(value, event'.arg)]_vars

\* C12: the error timer is live only while the mounted instance's latest
\* render has type 'error': the render that sees type change away from
\* 'error' cancels it, so the timer's calls come only on such a render.
C12_TimerOnlyInError ==
    [][/\ timers' # {} => mounted' /\ rendered'.type = "error"
       /\ event'.kind = "timer" => mounted /\ rendered.type = "error"]_vars

\* C12 witness: the render that saw type leave 'error' cancelled the armed
\* timer.
C12_Witness ==
    /\ event = Event("render", 1)
    /\ rendered.type # "error"
    /\ timers = {}
    /\ timeoutId = 0

\* C13: vibrateOnError is called at most once per error episode: a render
\* of an instance that has already vibrated since type became 'error' does
\* not vibrate again.
C13_VibrateOncePerEpisode ==
    [][CallsOf(calls', "vibrateOnError") # {} =>
          /\ ~vibrated
          /\ Cardinality(CallsOf(calls', "vibrateOnError")) = 1]_vars

\* C14: the error timer never changes a buffer that is not full: when it
\* fires while the caller's buffer is shorter than N the buffer stays as it
\* is.
C14_TimerSparesPartialBuffer ==
    [][(event'.kind = "timer" /\ Len(value) # length) => value' = value]_vars

C16_BackspaceDropsLast ==
    [][(event'.kind = "backspace" /\ mounted
        /\ ~(rendered.type = "success" \/ rendered.isPinAccepted)) =>
          IF rendered.value # <<>>
          THEN /\ Cardinality(Changes(calls')) = 1
               /\ \A i \in Changes(calls') :
                     calls'[i].arg = SubSeq(rendered.value, 1, Len(rendered.value) - 1)
               /\ value' = SubSeq(rendered.value, 1, Len(rendered.value) - 1)
               /\ Submits(calls') = {}
          ELSE /\ calls' = NoCalls
               /\ value' = value
               /\ type' = type]_vars

\* C16 witness: backspace on the buffer 1,2 left the buffer 1.
C16_Witness ==
    /\ event.kind = "backspace"
    /\ mounted
    /\ rendered.value = <<1, 2>>
    /\ value = <<1>>

\* C17 as stated: while mode is Success (as rendered and as the caller and
\* the store hold it) the control makes no onChange call, whatever the
\* event.
C17_NoChangeInSuccess ==
    [][(RenderedSuccess /\ (type = "success" \/ isPinAccepted)) =>
          Changes(calls') = {}]_vars

\* C17 amended: while the rendered mode is Success no key press makes an
\* onChange call or changes the buffer; the only onChange calls are
\* onChange('') by the error timer (type 'error' with the accepted flag
\* true) and by the render that sees the accepted flag drop.
C17_OnlyKeysGatedInSuccess ==
    [][RenderedSuccess =>
          /\ event'.kind \in {"digit", "backspace", "biometrics"} =>
                Changes(calls') = {} /\ value' = value
          /\ Changes(calls') # {} =>
                /\ \A i \in Changes(calls') : calls'[i].arg = <<>>
                /\ \/ /\ event'.kind = "timer"
                      /\ rendered.type = "error" /\ rendered.isPinAccepted
                   \/ /\ event'.kind = "render"
                      /\ rendered.isPinAccepted /\ ~isPinAccepted]_vars

\* C17 witness: with type 'error' and the accepted flag true the error
\* timer emptied a full buffer.
C17_Witness ==
    /\ event.kind = "timer"
    /\ mounted
    /\ rendered.type = "error"
    /\ rendered.isPinAccepted /\ isPinAccepted
    /\ Len(rendered.value) = length
    /\ calls[1] = Call("onChange", <<>>)
    /\ value = <<>>

\* C18 as stated: a digit or backspace press on a buffer of intermediate
\* length invokes no onClearError.
C18_ClearErrorOnlyAtEnds ==
    [][(/\ event'.kind \in {"digit", "backspace"}
        /\ mounted
        /\ Len(rendered.value) > 0 /\ Len(rendered.value) < length
        /\ Len(value) > 0 /\ Len(value) < length) =>
          CallsOf(calls', "onClearError") = {}]_vars

\* C18 amended: a digit press invokes onClearError only on a full or empty
\* rendered buffer; a backspace press that is handled (key enabled) invokes
\* onClearError first, whatever the length, when the callback is supplied.
C18_DigitsAtEndsBackspaceAlways ==
    [][/\ (event'.kind = "digit" /\ CallsOf(calls', "onClearError") # {}) =>
             Len(rendered.value) \in {0, length}
       /\ (/\ event'.kind = "backspace" /\ mounted /\ hasOnClearError
           /\ rendered.value # <<>>
           /\ ~(rendered.type = "success" \/ rendered.isPinAccepted)) =>
             /\ calls'[1] = Call("onClearError", <<>>)
             /\ CallsOf(calls', "onClearError") = {1}]_vars

\* C18 witness: backspace on a buffer of intermediate length invoked
\* onClearError.
C18_Witness ==
    /\ event.kind = "backspace"
    /\ mounted
    /\ Len(rendered.value) > 0 /\ Len(rendered.value) < length
    /\ Len(calls) = 2
    /\ calls[1] = Call("onClearError", <<>>)
    /\ calls[2].fn = "onChange"

\* C19: a press on the biometric key invokes onBiometricsClick unless the
\* rendered mode is Success, in which case it invokes nothing; nothing else
\* invokes onBiometricsClick.
C19_BiometricsGatedBySuccess ==
    [][/\ event'.kind = "biometrics" =>
             calls' = IF RenderedSuccess
                      THEN NoCalls
                      ELSE <<Call("onBiometricsClick", <<>>)>>
       /\ CallsOf(calls', "onBiometricsClick") # {} => event'.kind = "biometrics"]_vars

\* C19 witness: the biometric key was pressed on a full buffer in Normal
\* mode and onBiometricsClick was invoked.
C19_Witness ==
    /\ event.kind = "biometrics"
    /\ RenderedNormal
    /\ Len(rendered.value) = length
    /\ calls = <<Call("onBiometricsClick", <<>>)>>

====
